---- MODULE Spec2Model ----
(***************************************************************************)
(* Model of the rebalancing functions of src/script.py:                    *)
(*   validar_entradas, validar_ativos_fixos, calcular_percentuais_atuais,  *)
(*   calcular_valores_alvo, calcular_valores_alvo_com_fixos,               *)
(*   calcular_acoes_necessarias, _calcular_patrimonio_alvo_minimo and the  *)
(*   public functions calcular_rebalanceamento,                            *)
(*   calcular_rebalanceamento_com_fixos,                                   *)
(*   calcular_aporte_necessario_para_alvo,                                 *)
(*   calcular_rebalanceamento_otimizado and                                *)
(*   calcular_rebalanceamento_otimizado_silencioso.                        *)
(*                                                                         *)
(* Three specifications.  Spec follows one call of                         *)
(* calcular_rebalanceamento_otimizado_silencioso step by step.             *)
(* SpecOperacoes calls any one of the five public functions, each call     *)
(* being one action.  SpecApp is a session of the web form of src/app.py:  *)
(* assets are added and removed and the rebalancing is calculated.         *)
(*                                                                         *)
(* Numbers.  The program computes with Python numbers.  They are modelled  *)
(* as exact rationals <<n, d>> (d > 0, lowest terms), so every +, -, *, /, *)
(* max and comparison of the source is computed exactly.  The rounding of  *)
(* IEEE doubles is modelled where it decides a branch: a tolerance test    *)
(* abs(x - y) > 0.01 whose exact difference is 0.01 goes either way (the   *)
(* variable arredondamento); elsewhere rounding is not modelled.           *)
(* float('inf') is the pair <<1, 0>>.                                      *)
(* A division whose divisor is zero raises ZeroDivisionError in Python;    *)
(* every operator that divides reports it in an "erro" field.              *)
(*                                                                         *)
(* Dicts are functions whose DOMAIN is the key set; a dict is iterated in  *)
(* insertion order, modelled as the order of Ordem.                        *)
(***************************************************************************)
EXTENDS Integers, Sequences, FiniteSets, TLC

\* ------------------------------------------------------------------------
\* Exact rational arithmetic (Python's float operators, without rounding)
\* ------------------------------------------------------------------------

AbsInt(n) == IF n < 0 THEN -n ELSE n

RECURSIVE GCD(_, _)
GCD(a, b) == IF b = 0 THEN a ELSE GCD(b, a % b)

\* the rational n/d in lowest terms, d # 0
Rat(n, d) ==
    LET s == IF d < 0 THEN -1 ELSE 1
        g == GCD(AbsInt(n), AbsInt(d))
    IN  <<(s * n) \div g, (s * d) \div g>>

R(n) == <<n, 1>>

RAdd(x, y) == Rat(x[1] * y[2] + y[1] * x[2], x[2] * y[2])
RSub(x, y) == Rat(x[1] * y[2] - y[1] * x[2], x[2] * y[2])
RMul(x, y) == Rat(x[1] * y[1], x[2] * y[2])
\* x / y, only used where y # 0 (the callers raise ZeroDivisionError first)
RDiv(x, y) == Rat(x[1] * y[2], x[2] * y[1])
RLt(x, y)  == x[1] * y[2] < y[1] * x[2]
RLe(x, y)  == x[1] * y[2] <= y[1] * x[2]
RGt(x, y)  == RLt(y, x)
RMax(x, y) == IF RGt(y, x) THEN y ELSE x
RAbs(x)    == <<AbsInt(x[1]), x[2]>>
RNeg(x)    == <<-x[1], x[2]>>

Zero    == R(0)
Cem     == R(100)

POSITIVE_INFINITY == <<1, 0>>

\* the tolerance 0.01 of the percentage checks
Tolerancia == <<1, 100>>

\* the three tolerance tests: the sum of the targets (validar_entradas), the share
\* of the fixed assets and the complement of the fixed targets (validar_ativos_fixos)
Comparacoes == {"soma", "fixos", "variaveis"}

\* for each tolerance test, what the doubles answer to abs(x) > 0.01 when x is 0.01
\* in exact arithmetic: 0.01 + 100 - 100 is 0.010000000000005, above the double
\* 0.01, while 14.29 + 85.7 - 100 is -0.00999999999999, below it
VARIABLE arredondamento

\* abs(x) > 0.01 as the doubles decide it
ExcedeTolerancia(x, comparacao) ==
    IF RAbs(x) = Tolerancia
    THEN arredondamento[comparacao]
    ELSE RGt(RAbs(x), Tolerancia)

\* ------------------------------------------------------------------------
\* Dicts
\* ------------------------------------------------------------------------

Ativos == {"A", "B", "C"}
Ordem  == <<"A", "B", "C">>

\* list(d.keys()): the keys of a dict in iteration order
Chaves(d) == SelectSeq(Ordem, LAMBDA a : a \in DOMAIN d)

\* sum(d[k] for k in seq)
RECURSIVE SomaEm(_, _)
SomaEm(d, seq) ==
    IF seq = <<>> THEN Zero ELSE RAdd(d[Head(seq)], SomaEm(d, Tail(seq)))

\* sum(d.values())
Soma(d) == SomaEm(d, Chaves(d))

\* the elements of a list of asset names, in the order of Ordem
Lista(S) == SelectSeq(Ordem, LAMBDA a : a \in S)

\* ------------------------------------------------------------------------
\* validar_entradas
\* ------------------------------------------------------------------------

\* validar_entradas without the test of the sum of the targets
validar_entradas_sem_soma(at, pa) ==
    IF DOMAIN at = {} \/ DOMAIN pa = {} THEN "ValueError: vazios"
    ELSE IF DOMAIN at # DOMAIN pa THEN "ValueError: ativos nao coincidem"
    ELSE "ok"

\* "ok", or the ValueError that validar_entradas raises
validar_entradas(at, pa) ==
    IF DOMAIN at = {} \/ DOMAIN pa = {} THEN "ValueError: vazios"
    ELSE IF DOMAIN at # DOMAIN pa THEN "ValueError: ativos nao coincidem"
    ELSE IF ExcedeTolerancia(RSub(Soma(pa), Cem), "soma") THEN "ValueError: soma dos percentuais"
    ELSE "ok"

\* ------------------------------------------------------------------------
\* calcular_percentuais_atuais
\* ------------------------------------------------------------------------

calcular_percentuais_atuais(at) ==
    LET patrimonio_atual == Soma(at)
    IN  [a \in DOMAIN at |->
            IF RGt(patrimonio_atual, Zero)
            THEN RMul(RDiv(at[a], patrimonio_atual), Cem)
            ELSE Zero]

\* ------------------------------------------------------------------------
\* validar_ativos_fixos
\* ------------------------------------------------------------------------

\* validar_ativos_fixos that only checks that the fixed assets exist
validar_ativos_fixos_sem_parcela(at, fx, pa) ==
    IF fx = {} THEN [is_valid |-> TRUE, error_msg |-> "None", disponivel |-> Cem]
    ELSE IF \E a \in fx : a \notin DOMAIN at
    THEN [is_valid |-> FALSE, error_msg |-> "nao encontrado nos ativos atuais", disponivel |-> Zero]
    ELSE [is_valid |-> TRUE, error_msg |-> "None",
          disponivel |-> RSub(Cem, SomaEm(pa, Lista(fx)))]

\* the tuple (is_valid, error_message, patrimonio_disponivel_percentual)
validar_ativos_fixos(at, fx, pa) ==
    IF fx = {} THEN [is_valid |-> TRUE, error_msg |-> "None", disponivel |-> Cem]
    ELSE IF \E a \in fx : a \notin DOMAIN at
    THEN [is_valid |-> FALSE, error_msg |-> "nao encontrado nos ativos atuais", disponivel |-> Zero]
    ELSE IF \E a \in fx : a \notin DOMAIN pa
    THEN [is_valid |-> FALSE, error_msg |-> "nao tem percentual alvo definido", disponivel |-> Zero]
    ELSE
      LET patrimonio_total        == Soma(at)
          valor_ativos_fixos      == SomaEm(at, Lista(fx))
          percentual_ativos_fixos ==
              IF RGt(patrimonio_total, Zero)
              THEN RMul(RDiv(valor_ativos_fixos, patrimonio_total), Cem)
              ELSE Zero
          percentual_alvo_fixos   == SomaEm(pa, Lista(fx))
          percentual_disponivel   == RSub(Cem, percentual_alvo_fixos)
          ativos_variaveis        == Lista(DOMAIN at \ fx)
          percentual_alvo_variaveis == SomaEm(pa, ativos_variaveis)
      IN  IF ExcedeTolerancia(RSub(percentual_ativos_fixos, percentual_alvo_fixos), "fixos")
          THEN [is_valid |-> FALSE, error_msg |-> "ativos fixos ocupam", disponivel |-> Zero]
          ELSE IF ExcedeTolerancia(RSub(percentual_alvo_variaveis, percentual_disponivel),
                                   "variaveis")
          THEN [is_valid |-> FALSE, error_msg |-> "ativos variaveis precisam de", disponivel |-> Zero]
          ELSE [is_valid |-> TRUE, error_msg |-> "None", disponivel |-> percentual_disponivel]

\* ------------------------------------------------------------------------
\* _calcular_patrimonio_alvo_minimo
\* ------------------------------------------------------------------------

\* valor_atual / (perc_alvo / 100), for perc_alvo # 0
PatrimonioMinimo(valor_atual, perc_alvo) == RDiv(valor_atual, RDiv(perc_alvo, Cem))

\* LacoFixos without the max: the last fixed asset decides
RECURSIVE LacoFixosUltimo(_, _, _, _, _)
LacoFixosUltimo(at, pa, fx, seq, patrimonio_alvo) ==
    IF seq = <<>> THEN [erro |-> FALSE, valor |-> patrimonio_alvo]
    ELSE LET ativo == Head(seq)
         IN  IF ativo \in fx
             THEN IF pa[ativo] = Zero
                  THEN [erro |-> TRUE, valor |-> patrimonio_alvo]
                  ELSE LacoFixosUltimo(at, pa, fx, Tail(seq),
                                       PatrimonioMinimo(at[ativo], pa[ativo]))
             ELSE LacoFixosUltimo(at, pa, fx, Tail(seq), patrimonio_alvo)

\* first loop: each fixed asset raises patrimonio_alvo to valor_atual / (perc_alvo / 100)
RECURSIVE LacoFixos(_, _, _, _, _)
LacoFixos(at, pa, fx, seq, patrimonio_alvo) ==
    IF seq = <<>> THEN [erro |-> FALSE, valor |-> patrimonio_alvo]
    ELSE LET ativo == Head(seq)
         IN  IF ativo \in fx
             THEN IF pa[ativo] = Zero
                  THEN [erro |-> TRUE, valor |-> patrimonio_alvo]
                  ELSE LacoFixos(at, pa, fx, Tail(seq),
                                 RMax(patrimonio_alvo, PatrimonioMinimo(at[ativo], pa[ativo])))
             ELSE LacoFixos(at, pa, fx, Tail(seq), patrimonio_alvo)

\* LacoVariaveis comparing each share against the current total and without the
\* max: the last asset above its target decides
RECURSIVE LacoVariaveisUltimo(_, _, _, _, _)
LacoVariaveisUltimo(at, pa, fx, seq, patrimonio_alvo) ==
    IF seq = <<>> THEN [erro |-> FALSE, valor |-> patrimonio_alvo]
    ELSE LET ativo == Head(seq)
         IN  IF ativo \notin fx
             THEN IF Soma(at) = Zero
                  THEN [erro |-> TRUE, valor |-> patrimonio_alvo]
                  ELSE LET perc_atual == RMul(RDiv(at[ativo], Soma(at)), Cem)
                       IN  IF RGt(perc_atual, pa[ativo])
                           THEN IF pa[ativo] = Zero
                                THEN [erro |-> TRUE, valor |-> patrimonio_alvo]
                                ELSE LacoVariaveisUltimo(at, pa, fx, Tail(seq),
                                        PatrimonioMinimo(at[ativo], pa[ativo]))
                           ELSE LacoVariaveisUltimo(at, pa, fx, Tail(seq), patrimonio_alvo)
             ELSE LacoVariaveisUltimo(at, pa, fx, Tail(seq), patrimonio_alvo)

\* second loop: each non-fixed asset whose share of the running patrimonio_alvo is
\* above its target raises patrimonio_alvo to valor_atual / (perc_alvo / 100)
RECURSIVE LacoVariaveis(_, _, _, _, _)
LacoVariaveis(at, pa, fx, seq, patrimonio_alvo) ==
    IF seq = <<>> THEN [erro |-> FALSE, valor |-> patrimonio_alvo]
    ELSE LET ativo == Head(seq)
         IN  IF ativo \notin fx
             THEN IF patrimonio_alvo = Zero
                  THEN [erro |-> TRUE, valor |-> patrimonio_alvo]
                  ELSE LET perc_atual == RMul(RDiv(at[ativo], patrimonio_alvo), Cem)
                       IN  IF RGt(perc_atual, pa[ativo])
                           THEN IF pa[ativo] = Zero
                                THEN [erro |-> TRUE, valor |-> patrimonio_alvo]
                                ELSE LacoVariaveis(at, pa, fx, Tail(seq),
                                        RMax(patrimonio_alvo,
                                             PatrimonioMinimo(at[ativo], pa[ativo])))
                           ELSE LacoVariaveis(at, pa, fx, Tail(seq), patrimonio_alvo)
             ELSE LacoVariaveis(at, pa, fx, Tail(seq), patrimonio_alvo)

\* the function for a dict ativos_atuais that is iterated in the order seq:
\* [erro |-> TRUE] when a ZeroDivisionError is raised, else the returned value
CalcularPatrimonioAlvoMinimoNaOrdem(at, pa, fx, seq) ==
    LET fixos == LacoFixos(at, pa, fx, seq, Zero)
    IN  IF fixos.erro THEN fixos
        ELSE IF fixos.valor = Zero
             THEN LacoVariaveis(at, pa, fx, seq, Soma(at))
             ELSE fixos

\* the function for the dicts of the calls, whose keys are in the order of Ordem
CalcularPatrimonioAlvoMinimo(at, pa, fx) ==
    CalcularPatrimonioAlvoMinimoNaOrdem(at, pa, fx, Chaves(at))

\* ------------------------------------------------------------------------
\* calcular_rebalanceamento_otimizado_silencioso, steps 2 to 5
\* ------------------------------------------------------------------------

\* ValoresAlvo giving the fixed assets their percentage of the equity too
ValoresAlvoSemFixos(at, pa, fx, patrimonio) ==
    [a \in DOMAIN pa |-> RMul(RDiv(pa[a], Cem), patrimonio)]

\* ValoresAlvo storing, for a non-fixed asset, the difference to its current value
ValoresAlvoDiferenca(at, pa, fx, patrimonio) ==
    [a \in DOMAIN pa |->
        IF a \in fx THEN at[a] ELSE RSub(RMul(RDiv(pa[a], Cem), patrimonio), at[a])]

\* step 2: the target value of each asset
ValoresAlvo(at, pa, fx, patrimonio) ==
    [a \in DOMAIN pa |->
        IF a \in fx THEN at[a] ELSE RMul(RDiv(pa[a], Cem), patrimonio)]

\* Acao reporting a sell as a positive amount
AcaoVendaPositiva(valor_atual, valor_alvo, fixo) ==
    IF fixo THEN Zero
    ELSE IF RGt(valor_alvo, valor_atual) THEN RSub(valor_alvo, valor_atual)
    ELSE IF RLt(valor_alvo, valor_atual) THEN RSub(valor_atual, valor_alvo)
    ELSE Zero

\* step 3: the signed action of one asset (+ buy, - sell, 0 fixed or on target)
Acao(valor_atual, valor_alvo, fixo) ==
    IF fixo THEN Zero
    ELSE IF RGt(valor_alvo, valor_atual) THEN RSub(valor_alvo, valor_atual)
    ELSE IF RLt(valor_alvo, valor_atual) THEN RNeg(RSub(valor_atual, valor_alvo))
    ELSE Zero

AcoesPorAtivo(at, va, fx) ==
    [a \in DOMAIN at |-> Acao(at[a], va[a], a \in fx)]

\* step 3: total_aportes_internos, accumulated over the non-fixed assets that buy
RECURSIVE TotalAportesInternos(_, _, _, _)
TotalAportesInternos(at, va, fx, seq) ==
    IF seq = <<>> THEN Zero
    ELSE LET a == Head(seq)
             resto == TotalAportesInternos(at, va, fx, Tail(seq))
         IN  IF a \notin fx /\ RGt(va[a], at[a])
             THEN RAdd(RSub(va[a], at[a]), resto)
             ELSE resto

\* step 3: total_vendas, accumulated over the non-fixed assets that sell
RECURSIVE TotalVendas(_, _, _, _)
TotalVendas(at, va, fx, seq) ==
    IF seq = <<>> THEN Zero
    ELSE LET a == Head(seq)
             resto == TotalVendas(at, va, fx, Tail(seq))
         IN  IF a \notin fx /\ ~RGt(va[a], at[a]) /\ RLt(va[a], at[a])
             THEN RAdd(RSub(at[a], va[a]), resto)
             ELSE resto

\* ExcedeDisponivel with >= : a contribution equal to the cap is refused
ExcedeDisponivelOuIgual(aporte, disponivel) ==
    disponivel # POSITIVE_INFINITY /\ RLe(disponivel, aporte)

\* ExcedeDisponivel with the comparison reversed
ExcedeDisponivelInvertido(aporte, disponivel) ==
    disponivel # POSITIVE_INFINITY /\ RLt(aporte, disponivel)

\* step 4: the net contribution exceeds a finite cap
ExcedeDisponivel(aporte, disponivel) ==
    disponivel # POSITIVE_INFINITY /\ RGt(aporte, disponivel)

\* step 5: valor / patrimonio_alvo * 100 for each asset, patrimonio_alvo # 0
PercentuaisFinais(va, patrimonio) ==
    [a \in DOMAIN va |-> RMul(RDiv(va[a], patrimonio), Cem)]

\* the dict returned when the fixed assets are incompatible
ResultadoFixosIncompativeis(at, error_msg) ==
    [viavel |-> FALSE,
     motivo_inviabilidade |-> "Ativos fixos incompativeis",
     detalhe |-> error_msg,
     patrimonio_atual |-> Soma(at),
     patrimonio_alvo |-> Zero,
     aporte_necessario |-> Zero,
     acoes_por_ativo |-> <<>>,
     valores_finais |-> <<>>,
     percentuais_atuais |-> <<>>,
     percentuais_finais |-> <<>>,
     total_vendas |-> Zero,
     total_aportes_internos |-> Zero]

\* ResultadoInviavel that drops the plan, as the dict of incompatible fixed assets does
ResultadoInviavelSemPlano(at, patrimonio, aporte, acoes, va, vendas, aportes) ==
    [viavel |-> FALSE,
     motivo_inviabilidade |-> "Aporte necessario excede disponivel",
     detalhe |-> "None",
     patrimonio_atual |-> Soma(at),
     patrimonio_alvo |-> Zero,
     aporte_necessario |-> Zero,
     acoes_por_ativo |-> <<>>,
     valores_finais |-> <<>>,
     percentuais_atuais |-> <<>>,
     percentuais_finais |-> <<>>,
     total_vendas |-> Zero,
     total_aportes_internos |-> Zero]

\* the dict returned when the net contribution exceeds the cap
ResultadoInviavel(at, patrimonio, aporte, acoes, va, vendas, aportes) ==
    [viavel |-> FALSE,
     motivo_inviabilidade |-> "Aporte necessario excede disponivel",
     detalhe |-> "None",
     patrimonio_atual |-> Soma(at),
     patrimonio_alvo |-> patrimonio,
     aporte_necessario |-> aporte,
     acoes_por_ativo |-> acoes,
     valores_finais |-> va,
     percentuais_atuais |-> calcular_percentuais_atuais(at),
     percentuais_finais |-> PercentuaisFinais(va, patrimonio),
     total_vendas |-> vendas,
     total_aportes_internos |-> aportes]

\* ResultadoViavel without the max(0, ...) around aporte_necessario
ResultadoViavelSemLimite(at, patrimonio, aporte, acoes, va, vendas, aportes) ==
    [viavel |-> TRUE,
     motivo_inviabilidade |-> "None",
     detalhe |-> "None",
     patrimonio_atual |-> Soma(at),
     patrimonio_alvo |-> patrimonio,
     aporte_necessario |-> aporte,
     acoes_por_ativo |-> acoes,
     valores_finais |-> va,
     percentuais_atuais |-> calcular_percentuais_atuais(at),
     percentuais_finais |-> PercentuaisFinais(va, patrimonio),
     total_vendas |-> vendas,
     total_aportes_internos |-> aportes]

\* the dict returned for a viable plan
ResultadoViavel(at, patrimonio, aporte, acoes, va, vendas, aportes) ==
    [viavel |-> TRUE,
     motivo_inviabilidade |-> "None",
     detalhe |-> "None",
     patrimonio_atual |-> Soma(at),
     patrimonio_alvo |-> patrimonio,
     aporte_necessario |-> RMax(Zero, aporte),
     acoes_por_ativo |-> acoes,
     valores_finais |-> va,
     percentuais_atuais |-> calcular_percentuais_atuais(at),
     percentuais_finais |-> PercentuaisFinais(va, patrimonio),
     total_vendas |-> vendas,
     total_aportes_internos |-> aportes]

\* no dict returned (yet)
SemResultado ==
    [viavel |-> FALSE,
     motivo_inviabilidade |-> "None",
     detalhe |-> "None",
     patrimonio_atual |-> Zero,
     patrimonio_alvo |-> Zero,
     aporte_necessario |-> Zero,
     acoes_por_ativo |-> <<>>,
     valores_finais |-> <<>>,
     percentuais_atuais |-> <<>>,
     percentuais_finais |-> <<>>,
     total_vendas |-> Zero,
     total_aportes_internos |-> Zero]

\* the whole call as a function of its arguments: the exception raised ("None" if
\* none) and the dict returned
RebalanceamentoOtimizadoSilencioso(at, pa, disponivel, fx) ==
    LET entradas_ok == validar_entradas(at, pa)
        fixos_ok    == validar_ativos_fixos(at, fx, pa)
        alvo        == CalcularPatrimonioAlvoMinimo(at, pa, fx)
        va          == ValoresAlvo(at, pa, fx, alvo.valor)
        acoes       == AcoesPorAtivo(at, va, fx)
        aportes     == TotalAportesInternos(at, va, fx, Chaves(at))
        vendas      == TotalVendas(at, va, fx, Chaves(at))
        aporte      == RSub(aportes, vendas)
    IN  IF entradas_ok # "ok"
        THEN [erro |-> entradas_ok, resultado |-> SemResultado]
        ELSE IF fx # {} /\ ~fixos_ok.is_valid
        THEN [erro |-> "None",
              resultado |-> ResultadoFixosIncompativeis(at, fixos_ok.error_msg)]
        ELSE IF alvo.erro \/ alvo.valor = Zero
        THEN [erro |-> "ZeroDivisionError", resultado |-> SemResultado]
        ELSE IF ExcedeDisponivel(aporte, disponivel)
        THEN [erro |-> "None",
              resultado |-> ResultadoInviavel(at, alvo.valor, aporte, acoes, va, vendas, aportes)]
        ELSE [erro |-> "None",
              resultado |-> ResultadoViavel(at, alvo.valor, aporte, acoes, va, vendas, aportes)]

\* ------------------------------------------------------------------------
\* calcular_rebalanceamento and calcular_rebalanceamento_com_fixos
\* ------------------------------------------------------------------------

\* (percentual / 100) * patrimonio_total for every asset
calcular_valores_alvo(pa, patrimonio_total) ==
    [a \in DOMAIN pa |-> RMul(RDiv(pa[a], Cem), patrimonio_total)]

\* the target values with the share of the whole equity for the variable assets,
\* instead of their proportion of the equity that the fixed assets leave
calcular_valores_alvo_sem_proporcao(at, pa, patrimonio_total, fx) ==
    LET fixos_ok == validar_ativos_fixos(at, fx, pa)
    IN  IF fx = {}
        THEN [erro |-> "None", valores_alvo |-> calcular_valores_alvo(pa, patrimonio_total)]
        ELSE IF ~fixos_ok.is_valid
        THEN [erro |-> "ValueError: Nao e possivel manter os ativos fixos: " \o fixos_ok.error_msg,
              valores_alvo |-> <<>>]
        ELSE [erro |-> "None",
              valores_alvo |-> [a \in DOMAIN at |->
                                  IF a \in fx THEN at[a]
                                  ELSE RMul(RDiv(pa[a], Cem), patrimonio_total)]]

\* the fixed assets keep their value, the others share patrimonio_total minus the
\* fixed value in proportion to their targets; erro is the ValueError raised
calcular_valores_alvo_com_fixos(at, pa, patrimonio_total, fx) ==
    LET fixos_ok                   == validar_ativos_fixos(at, fx, pa)
        valor_ativos_fixos         == SomaEm(at, Lista(fx))
        patrimonio_disponivel      == RSub(patrimonio_total, valor_ativos_fixos)
        ativos_variaveis           == DOMAIN at \ fx
        percentual_total_variaveis == SomaEm(pa, Lista(ativos_variaveis))
        proporcao(a) == IF RGt(percentual_total_variaveis, Zero)
                        THEN RDiv(pa[a], percentual_total_variaveis)
                        ELSE Zero
    IN  IF fx = {}
        THEN [erro |-> "None", valores_alvo |-> calcular_valores_alvo(pa, patrimonio_total)]
        ELSE IF ~fixos_ok.is_valid
        THEN [erro |-> "ValueError: Nao e possivel manter os ativos fixos: " \o fixos_ok.error_msg,
              valores_alvo |-> <<>>]
        ELSE [erro |-> "None",
              valores_alvo |-> [a \in fx \cup ativos_variaveis |->
                                  IF a \in fx THEN at[a]
                                  ELSE RMul(proporcao(a), patrimonio_disponivel)]]

\* the actions with the difference inverted: valor_atual - valor_alvo
calcular_acoes_invertidas(at, va) ==
    LET acoes == [a \in DOMAIN at |-> RSub(at[a], va[a])]
    IN  [acoes_necessarias |-> acoes,
         total_aportes |->
             SomaEm([a \in DOMAIN at |-> IF RGt(acoes[a], Zero) THEN acoes[a] ELSE Zero],
                    Chaves(at)),
         total_vendas |->
             SomaEm([a \in DOMAIN at |-> IF RLt(acoes[a], Zero) THEN RAbs(acoes[a]) ELSE Zero],
                    Chaves(at))]

\* the tuple (acoes_necessarias, total_aportes, total_vendas)
calcular_acoes_necessarias(at, va) ==
    LET acoes == [a \in DOMAIN at |-> RSub(va[a], at[a])]
    IN  [acoes_necessarias |-> acoes,
         total_aportes |->
             SomaEm([a \in DOMAIN at |-> IF RGt(acoes[a], Zero) THEN acoes[a] ELSE Zero],
                    Chaves(at)),
         total_vendas |->
             SomaEm([a \in DOMAIN at |-> IF RLt(acoes[a], Zero) THEN RAbs(acoes[a]) ELSE Zero],
                    Chaves(at))]

\* the whole call: the exception raised ("None" if none) and the dict returned
calcular_rebalanceamento(at, pa, valor_aporte_total) ==
    LET entradas_ok      == validar_entradas(at, pa)
        patrimonio_total == RAdd(Soma(at), valor_aporte_total)
        va               == calcular_valores_alvo(pa, patrimonio_total)
    IN  IF entradas_ok # "ok"
        THEN [erro |-> entradas_ok, resultado |-> SemResultado]
        ELSE [erro |-> "None", resultado |-> calcular_acoes_necessarias(at, va).acoes_necessarias]

\* the whole call: the exception raised ("None" if none) and the dict returned
calcular_rebalanceamento_com_fixos(at, pa, valor_aporte_total, fx) ==
    LET entradas_ok      == validar_entradas(at, pa)
        fixos_ok         == validar_ativos_fixos(at, fx, pa)
        patrimonio_total == RAdd(Soma(at), valor_aporte_total)
        alvo             == calcular_valores_alvo_com_fixos(at, pa, patrimonio_total, fx)
        acoes            == calcular_acoes_necessarias(at, alvo.valores_alvo).acoes_necessarias
    IN  IF entradas_ok # "ok"
        THEN [erro |-> entradas_ok, resultado |-> SemResultado]
        ELSE IF fx = {}
        THEN calcular_rebalanceamento(at, pa, valor_aporte_total)
        ELSE IF ~fixos_ok.is_valid
        THEN [erro |-> "ValueError: " \o fixos_ok.error_msg, resultado |-> SemResultado]
        ELSE IF alvo.erro # "None"
        THEN [erro |-> alvo.erro, resultado |-> SemResultado]
        ELSE [erro |-> "None",
              resultado |-> [a \in DOMAIN at |-> IF a \in fx THEN Zero ELSE acoes[a]]]

\* ------------------------------------------------------------------------
\* calcular_aporte_necessario_para_alvo
\* ------------------------------------------------------------------------

\* the iterations allowed to the search of the final equity
MaxIteracoes == 100

\* the assets whose current share is below their target, the fixed ones removed
AtivosPrecisamAporte(at, pa, fx) ==
    {a \in DOMAIN at \ fx : RLt(calcular_percentuais_atuais(at)[a], pa[a])}

\* the constraint pass keeping the last minimum instead of the largest
RECURSIVE LacoRestricoesUltimo(_, _, _, _, _, _)
LacoRestricoesUltimo(at, pa, fx, precisam, seq, patrimonio_final_necessario) ==
    IF seq = <<>>
    THEN [erro |-> FALSE, valor |-> patrimonio_final_necessario]
    ELSE LET a == Head(seq)
         IN  IF a \in fx \/ a \notin precisam
             THEN IF pa[a] = Zero
                  THEN [erro |-> TRUE, valor |-> patrimonio_final_necessario]
                  ELSE LacoRestricoesUltimo(at, pa, fx, precisam, Tail(seq),
                                            PatrimonioMinimo(at[a], pa[a]))
             ELSE LacoRestricoesUltimo(at, pa, fx, precisam, Tail(seq),
                                       patrimonio_final_necessario)

\* the running max of valor_atual / (perc_alvo / 100) over the fixed assets and the
\* assets that need no contribution; erro is the ZeroDivisionError of perc_alvo 0
RECURSIVE LacoRestricoes(_, _, _, _, _, _)
LacoRestricoes(at, pa, fx, precisam, seq, patrimonio_final_necessario) ==
    IF seq = <<>>
    THEN [erro |-> FALSE, valor |-> patrimonio_final_necessario]
    ELSE LET a == Head(seq)
         IN  IF a \in fx \/ a \notin precisam
             THEN IF pa[a] = Zero
                  THEN [erro |-> TRUE, valor |-> patrimonio_final_necessario]
                  ELSE LacoRestricoes(at, pa, fx, precisam, Tail(seq),
                           RMax(patrimonio_final_necessario, PatrimonioMinimo(at[a], pa[a])))
             ELSE LacoRestricoes(at, pa, fx, precisam, Tail(seq), patrimonio_final_necessario)

\* the test of the search inverted: the first asset whose target value is above
\* its current value
RECURSIVE PrecisariaComprar(_, _, _, _)
PrecisariaComprar(at, pa, seq, patrimonio_final_necessario) ==
    IF seq = <<>> THEN "nenhum"
    ELSE IF RGt(RMul(RDiv(pa[Head(seq)], Cem), patrimonio_final_necessario), at[Head(seq)])
    THEN Head(seq)
    ELSE PrecisariaComprar(at, pa, Tail(seq), patrimonio_final_necessario)

\* the first asset of seq whose target value at the equity is below its current
\* value, "nenhum" when there is none
RECURSIVE PrecisariaVender(_, _, _, _)
PrecisariaVender(at, pa, seq, patrimonio_final_necessario) ==
    IF seq = <<>> THEN "nenhum"
    ELSE IF RLt(RMul(RDiv(pa[Head(seq)], Cem), patrimonio_final_necessario), at[Head(seq)])
    THEN Head(seq)
    ELSE PrecisariaVender(at, pa, Tail(seq), patrimonio_final_necessario)

\* for _ in range(100): raise the equity to the candidate of the first asset that
\* would have to be sold, until none would; passos is the equity at the start of
\* every pass that ran
RECURSIVE BuscaIterativa(_, _, _, _)
BuscaIterativa(at, pa, patrimonio_final_necessario, restantes) ==
    LET a == PrecisariaVender(at, pa, Chaves(at), patrimonio_final_necessario)
        r == BuscaIterativa(at, pa, PatrimonioMinimo(at[a], pa[a]), restantes - 1)
    IN  IF restantes = 0
        THEN [erro |-> FALSE, valor |-> patrimonio_final_necessario, passos |-> <<>>]
        ELSE IF a = "nenhum"
        THEN [erro |-> FALSE, valor |-> patrimonio_final_necessario,
              passos |-> <<patrimonio_final_necessario>>]
        ELSE IF pa[a] = Zero
        THEN [erro |-> TRUE, valor |-> patrimonio_final_necessario,
              passos |-> <<patrimonio_final_necessario>>]
        ELSE [erro |-> r.erro, valor |-> r.valor,
              passos |-> <<patrimonio_final_necessario>> \o r.passos]

\* aporte_ativo with the clamp left out: a negative contribution is a sale
AporteAtivoComVenda(valor_final, valor_atual) == RSub(valor_final, valor_atual)

\* aporte_ativo = max(0, valor_final - valor_atual)
AporteAtivo(valor_final, valor_atual) == RMax(Zero, RSub(valor_final, valor_atual))

\* the whole call: the exception raised ("None" if none) and the dict returned
calcular_aporte_necessario_para_alvo(at, pa, fx) ==
    LET entradas_ok      == validar_entradas(at, pa)
        fixos_ok         == validar_ativos_fixos(at, fx, pa)
        patrimonio_atual == Soma(at)
        precisam         == AtivosPrecisamAporte(at, pa, fx)
        restricoes       == LacoRestricoes(at, pa, fx, precisam, Chaves(at), Zero)
        busca            == IF restricoes.erro \/ restricoes.valor # Zero
                            THEN restricoes
                            ELSE BuscaIterativa(at, pa, RMul(patrimonio_atual, R(2)), MaxIteracoes)
        aportes          == [a \in DOMAIN at |->
                               AporteAtivo(RMul(RDiv(pa[a], Cem), busca.valor), at[a])]
        finais           == [a \in DOMAIN at |-> RAdd(at[a], aportes[a])]
        patrimonio_final_real == Soma(finais)
    IN  IF entradas_ok # "ok"
        THEN [erro |-> entradas_ok, resultado |-> SemResultado]
        ELSE IF fx # {} /\ ~fixos_ok.is_valid
        THEN [erro |-> "ValueError: " \o fixos_ok.error_msg, resultado |-> SemResultado]
        ELSE IF precisam = {}
        THEN [erro |-> "None",
              resultado |-> [aporte_total_necessario |-> Zero,
                             patrimonio_final |-> patrimonio_atual,
                             aportes_por_ativo |-> [a \in DOMAIN at |-> Zero],
                             valores_finais |-> at,
                             percentuais_finais |-> calcular_percentuais_atuais(at)]]
        ELSE IF busca.erro \/ patrimonio_final_real = Zero
        THEN [erro |-> "ZeroDivisionError", resultado |-> SemResultado]
        ELSE [erro |-> "None",
              resultado |-> [aporte_total_necessario |-> RSub(busca.valor, patrimonio_atual),
                             patrimonio_final |-> patrimonio_final_real,
                             aportes_por_ativo |-> aportes,
                             valores_finais |-> finais,
                             percentuais_finais |-> PercentuaisFinais(finais, patrimonio_final_real)]]

\* ------------------------------------------------------------------------
\* calcular_rebalanceamento_otimizado (the function that prints)
\* ------------------------------------------------------------------------

\* calcular_rebalanceamento_otimizado that keeps no asset fixed
RebalanceamentoOtimizadoSemFixos(at, pa, disponivel, fx) ==
    LET r == RebalanceamentoOtimizadoSilencioso(at, pa, disponivel, {})
    IN  [erro |-> r.erro,
         resultado |-> [k \in DOMAIN r.resultado \ {"patrimonio_atual", "percentuais_atuais"} |->
                           r.resultado[k]]]

\* the whole call: the exception raised ("None" if none) and the dict returned,
\* which has no key patrimonio_atual and no key percentuais_atuais
calcular_rebalanceamento_otimizado(at, pa, disponivel, fx) ==
    LET entradas_ok == validar_entradas(at, pa)
        fixos_ok    == validar_ativos_fixos(at, fx, pa)
        alvo        == CalcularPatrimonioAlvoMinimo(at, pa, fx)
        va          == [a \in DOMAIN pa |->
                          IF a \in fx THEN at[a] ELSE RMul(RDiv(pa[a], Cem), alvo.valor)]
        acoes       == [a \in DOMAIN at |->
                          IF a \in fx THEN Zero
                          ELSE IF RGt(va[a], at[a]) THEN RSub(va[a], at[a])
                          ELSE IF RLt(va[a], at[a]) THEN RNeg(RSub(at[a], va[a]))
                          ELSE Zero]
        aportes     == SomaEm([a \in DOMAIN at |-> RMax(Zero, acoes[a])], Chaves(at))
        vendas      == SomaEm([a \in DOMAIN at |-> RMax(Zero, RNeg(acoes[a]))], Chaves(at))
        aporte      == RSub(aportes, vendas)
    IN  IF entradas_ok # "ok"
        THEN [erro |-> entradas_ok, resultado |-> SemResultado]
        ELSE IF fx # {} /\ ~fixos_ok.is_valid
        THEN [erro |-> "None",
              resultado |-> [viavel |-> FALSE,
                             motivo_inviabilidade |-> "Ativos fixos incompativeis",
                             detalhe |-> fixos_ok.error_msg,
                             patrimonio_alvo |-> Zero,
                             aporte_necessario |-> Zero,
                             acoes_por_ativo |-> <<>>,
                             valores_finais |-> <<>>,
                             percentuais_finais |-> <<>>,
                             total_vendas |-> Zero,
                             total_aportes_internos |-> Zero]]
        ELSE IF alvo.erro \/ alvo.valor = Zero
        THEN [erro |-> "ZeroDivisionError", resultado |-> SemResultado]
        ELSE IF disponivel # POSITIVE_INFINITY /\ RGt(aporte, disponivel)
        THEN [erro |-> "None",
              resultado |-> [viavel |-> FALSE,
                             motivo_inviabilidade |-> "Aporte necessario excede disponivel",
                             detalhe |-> "None",
                             patrimonio_alvo |-> alvo.valor,
                             aporte_necessario |-> aporte,
                             acoes_por_ativo |-> acoes,
                             valores_finais |-> va,
                             percentuais_finais |-> PercentuaisFinais(va, alvo.valor),
                             total_vendas |-> vendas,
                             total_aportes_internos |-> aportes]]
        ELSE [erro |-> "None",
              resultado |-> [viavel |-> TRUE,
                             motivo_inviabilidade |-> "None",
                             detalhe |-> "None",
                             patrimonio_alvo |-> alvo.valor,
                             aporte_necessario |-> RMax(Zero, aporte),
                             acoes_por_ativo |-> acoes,
                             valores_finais |-> va,
                             percentuais_finais |-> PercentuaisFinais(va, alvo.valor),
                             total_vendas |-> vendas,
                             total_aportes_internos |-> aportes]]

\* ------------------------------------------------------------------------
\* Inputs of one call
\* ------------------------------------------------------------------------

\* current values range over 0 .. MaxValor, caps over 0 .. MaxAporte and infinity
MaxValor  == 3
MaxAporte == 2

ValoresGrade == {R(v) : v \in 0..MaxValor}
PercGrade    == {Zero, <<1, 200>>, R(25), R(50), R(75), Cem}
AportesGrade == {R(c) : c \in 0..MaxAporte} \cup {POSITIVE_INFINITY}

\* percentage dicts of the grid: those that sum to 100 within the tolerance, and
\* some that validar_entradas rejects (sum 75 or 125)
SomaAdmitida(pa) ==
    \/ RLe(RAbs(RSub(Soma(pa), Cem)), Tolerancia)
    \/ Soma(pa) \in {R(75), R(125)}

Dict3(a, b, c) == [k \in Ativos |-> IF k = "A" THEN R(a) ELSE IF k = "B" THEN R(b) ELSE R(c)]
Dict2(a, b)    == [k \in {"A", "B"} |-> IF k = "A" THEN R(a) ELSE R(b)]

\* the inputs of src/teste_exemplo.py, each without cap and without fixed asset
Cenarios ==
    { [ativos_atuais |-> Dict3(10, 10, 50), percentuais_alvo |-> Dict3(1, 50, 49),
       valor_aporte_disponivel |-> POSITIVE_INFINITY, ativos_fixos |-> {}],
      [ativos_atuais |-> Dict2(30, 70), percentuais_alvo |-> Dict2(30, 70),
       valor_aporte_disponivel |-> POSITIVE_INFINITY, ativos_fixos |-> {}],
      [ativos_atuais |-> Dict2(90, 10), percentuais_alvo |-> Dict2(20, 80),
       valor_aporte_disponivel |-> POSITIVE_INFINITY, ativos_fixos |-> {}] }

\* ill-formed inputs: an empty dict, different key sets
EntradasMalFormadas ==
    { [ativos_atuais |-> <<>>, percentuais_alvo |-> <<>>,
       valor_aporte_disponivel |-> POSITIVE_INFINITY, ativos_fixos |-> {}],
      [ativos_atuais |-> Dict2(1, 1), percentuais_alvo |-> <<>>,
       valor_aporte_disponivel |-> POSITIVE_INFINITY, ativos_fixos |-> {}],
      [ativos_atuais |-> Dict2(1, 1), percentuais_alvo |-> Dict3(25, 25, 50),
       valor_aporte_disponivel |-> POSITIVE_INFINITY, ativos_fixos |-> {}] }

\* the inputs of src/examples.py: the insufficient contribution of example 9 and
\* the invalid combination of example 4 (ITSA4, PETR4, VALE3 as A, B, C)
CenariosExemplos ==
    { [ativos_atuais |-> Dict2(1000, 4000), percentuais_alvo |-> Dict2(80, 20),
       valor_aporte_disponivel |-> R(500), ativos_fixos |-> {}],
      [ativos_atuais |-> Dict3(2000, 3000, 1000), percentuais_alvo |-> Dict3(50, 30, 20),
       valor_aporte_disponivel |-> POSITIVE_INFINITY, ativos_fixos |-> {"A"}] }

\* inputs on the limits of the checks: a fixed asset that is not a key of the
\* dicts; a fixed asset whose target 25.005 is within the tolerance above its share
\* 25; targets 14.29 + 85.7 whose sum is 0.01 below 100
CenariosLimite ==
    { [ativos_atuais |-> Dict2(1, 1), percentuais_alvo |-> Dict2(50, 50),
       valor_aporte_disponivel |-> POSITIVE_INFINITY, ativos_fixos |-> {"C"}],
      [ativos_atuais |-> Dict3(1, 1, 2),
       percentuais_alvo |-> [Dict3(25, 25, 50) EXCEPT !["A"] = <<5001, 200>>],
       valor_aporte_disponivel |-> POSITIVE_INFINITY, ativos_fixos |-> {"A"}],
      [ativos_atuais |-> Dict2(1, 6),
       percentuais_alvo |-> [A |-> <<1429, 100>>, B |-> <<857, 10>>],
       valor_aporte_disponivel |-> POSITIVE_INFINITY, ativos_fixos |-> {"A"}] }

\* inputs whose targets 50.005 + 50.0025 sum to 100.0075, within the tolerance: every
\* asset is below its target, and a fixed asset asks for less than the current total
CenariosTolerancia ==
    { [ativos_atuais |-> Dict2(1, 1),
       percentuais_alvo |-> [A |-> <<10001, 200>>, B |-> <<20001, 400>>],
       valor_aporte_disponivel |-> POSITIVE_INFINITY, ativos_fixos |-> {"A"}],
      [ativos_atuais |-> Dict2(1, 1),
       percentuais_alvo |-> [A |-> <<10001, 200>>, B |-> <<20001, 400>>],
       valor_aporte_disponivel |-> POSITIVE_INFINITY, ativos_fixos |-> {}] }

\* ------------------------------------------------------------------------
\* One call of calcular_rebalanceamento_otimizado_silencioso
\* ------------------------------------------------------------------------

VARIABLES
    operacao,                 \* the public function that is called
    ativos_atuais,            \* argument: dict asset -> current value
    percentuais_alvo,         \* argument: dict asset -> target percentage
    valor_aporte_disponivel,  \* argument: the cap, or POSITIVE_INFINITY (valor_aporte_total
                              \* of calcular_rebalanceamento and ..._com_fixos)
    ativos_fixos,             \* argument: the fixed assets
    pc,                       \* position in the function body
    patrimonio_alvo,          \* local of step 1
    valores_alvo,             \* local of step 2
    acoes_por_ativo,          \* locals of step 3
    total_aportes_internos,
    total_vendas,
    erro,                     \* the exception raised, "None" if none
    resultado,                \* the dict returned, when pc = "retornou"
    ativos                    \* st.session_state.ativos of the web form (src/app.py)

vars == <<operacao, ativos_atuais, percentuais_alvo, valor_aporte_disponivel, ativos_fixos,
          arredondamento, pc, patrimonio_alvo, valores_alvo, acoes_por_ativo,
          total_aportes_internos, total_vendas, erro, resultado, ativos>>

\* what a call does not change: its arguments, the rounding of the doubles and the
\* assets stored by the web form
entradas == <<operacao, ativos_atuais, percentuais_alvo, valor_aporte_disponivel,
              ativos_fixos, arredondamento, ativos>>

\* the exact difference of a tolerance test of this call is 0.01
NoLimite(comparacao) ==
    LET bem_formado == ativos_fixos \subseteq (DOMAIN ativos_atuais \cap DOMAIN percentuais_alvo)
        total       == Soma(ativos_atuais)
        parcela     == IF RGt(total, Zero)
                       THEN RMul(RDiv(SomaEm(ativos_atuais, Lista(ativos_fixos)), total), Cem)
                       ELSE Zero
    IN  IF comparacao = "fixos"
        THEN bem_formado /\
             RAbs(RSub(parcela, SomaEm(percentuais_alvo, Lista(ativos_fixos)))) = Tolerancia
        ELSE RAbs(RSub(Soma(percentuais_alvo), Cem)) = Tolerancia

\* the rounding is a choice only for the tolerance tests on the limit
Arredondamentos ==
    { [c \in Comparacoes |-> c \in S] : S \in SUBSET {c \in Comparacoes : NoLimite(c)} }

\* the locals before the call, no result, no asset stored by the web form
Locais ==
    /\ pc = "inicio"
    /\ patrimonio_alvo = Zero
    /\ valores_alvo = <<>>
    /\ acoes_por_ativo = <<>>
    /\ total_aportes_internos = Zero
    /\ total_vendas = Zero
    /\ erro = "None"
    /\ resultado = SemResultado
    /\ ativos = <<>>

\* a call with dicts over the same non-empty key set, drawn from the grid
InitGrade ==
    /\ operacao = "calcular_rebalanceamento_otimizado_silencioso"
    /\ \E K \in (SUBSET Ativos) \ {{}} :
          /\ ativos_atuais \in [K -> ValoresGrade]
          /\ percentuais_alvo \in [K -> PercGrade]
          /\ SomaAdmitida(percentuais_alvo)
          /\ ativos_fixos \in SUBSET K
    /\ valor_aporte_disponivel \in AportesGrade
    /\ arredondamento \in Arredondamentos
    /\ Locais

\* a call with one of the listed inputs
InitCenario ==
    /\ operacao = "calcular_rebalanceamento_otimizado_silencioso"
    /\ \E e \in Cenarios \cup EntradasMalFormadas \cup CenariosExemplos \cup CenariosLimite
                 \cup CenariosTolerancia :
          /\ ativos_atuais = e.ativos_atuais
          /\ percentuais_alvo = e.percentuais_alvo
          /\ valor_aporte_disponivel = e.valor_aporte_disponivel
          /\ ativos_fixos = e.ativos_fixos
    /\ arredondamento \in Arredondamentos
    /\ Locais

Init == InitGrade \/ InitCenario

\* validar_entradas(ativos_atuais, percentuais_alvo)
ValidarEntradas ==
    /\ pc = "inicio"
    /\ operacao = "calcular_rebalanceamento_otimizado_silencioso"
    /\ LET v == validar_entradas(ativos_atuais, percentuais_alvo)
       IN  IF v = "ok"
           THEN pc' = "validado" /\ erro' = erro
           ELSE pc' = "erro" /\ erro' = v
    /\ UNCHANGED <<entradas, patrimonio_alvo, valores_alvo, acoes_por_ativo,
                   total_aportes_internos, total_vendas, resultado>>

\* if ativos_fixos: validar_ativos_fixos(...), returning the incompatibility dict
ValidarAtivosFixos ==
    /\ pc = "validado"
    /\ LET v == validar_ativos_fixos(ativos_atuais, ativos_fixos, percentuais_alvo)
       IN  IF ativos_fixos # {} /\ ~v.is_valid
           THEN /\ pc' = "retornou"
                /\ resultado' = ResultadoFixosIncompativeis(ativos_atuais, v.error_msg)
           ELSE /\ pc' = "fixos_ok"
                /\ resultado' = resultado
    /\ UNCHANGED <<entradas, patrimonio_alvo, valores_alvo, acoes_por_ativo,
                   total_aportes_internos, total_vendas, erro>>

\* 1. patrimonio_alvo = _calcular_patrimonio_alvo_minimo(...)
CalcularPatrimonioAlvo ==
    /\ pc = "fixos_ok"
    /\ LET r == CalcularPatrimonioAlvoMinimo(ativos_atuais, percentuais_alvo, ativos_fixos)
       IN  IF r.erro
           THEN pc' = "erro" /\ erro' = "ZeroDivisionError" /\ patrimonio_alvo' = patrimonio_alvo
           ELSE pc' = "patrimonio" /\ erro' = erro /\ patrimonio_alvo' = r.valor
    /\ UNCHANGED <<entradas, valores_alvo, acoes_por_ativo, total_aportes_internos,
                   total_vendas, resultado>>

\* 2. valores_alvo
CalcularValoresAlvo ==
    /\ pc = "patrimonio"
    /\ valores_alvo' = ValoresAlvo(ativos_atuais, percentuais_alvo, ativos_fixos, patrimonio_alvo)
    /\ pc' = "valores"
    /\ UNCHANGED <<entradas, patrimonio_alvo, acoes_por_ativo, total_aportes_internos,
                   total_vendas, erro, resultado>>

\* 3. acoes_por_ativo, total_aportes_internos, total_vendas
CalcularAcoes ==
    /\ pc = "valores"
    /\ acoes_por_ativo' = AcoesPorAtivo(ativos_atuais, valores_alvo, ativos_fixos)
    /\ total_aportes_internos' =
          TotalAportesInternos(ativos_atuais, valores_alvo, ativos_fixos, Chaves(ativos_atuais))
    /\ total_vendas' =
          TotalVendas(ativos_atuais, valores_alvo, ativos_fixos, Chaves(ativos_atuais))
    /\ pc' = "acoes"
    /\ UNCHANGED <<entradas, patrimonio_alvo, valores_alvo, erro, resultado>>

\* 4. and 5. the verdict and the returned dict
VerificarViabilidade ==
    /\ pc = "acoes"
    /\ LET aporte_necessario == RSub(total_aportes_internos, total_vendas)
       IN  IF patrimonio_alvo = Zero /\ DOMAIN valores_alvo # {}
           THEN pc' = "erro" /\ erro' = "ZeroDivisionError" /\ resultado' = resultado
           ELSE /\ pc' = "retornou"
                /\ erro' = erro
                /\ resultado' =
                     IF ExcedeDisponivel(aporte_necessario, valor_aporte_disponivel)
                     THEN ResultadoInviavel(ativos_atuais, patrimonio_alvo, aporte_necessario,
                              acoes_por_ativo, valores_alvo, total_vendas, total_aportes_internos)
                     ELSE ResultadoViavel(ativos_atuais, patrimonio_alvo, aporte_necessario,
                              acoes_por_ativo, valores_alvo, total_vendas, total_aportes_internos)
    /\ UNCHANGED <<entradas, patrimonio_alvo, valores_alvo, acoes_por_ativo,
                   total_aportes_internos, total_vendas>>

Next ==
    \/ ValidarEntradas
    \/ ValidarAtivosFixos
    \/ CalcularPatrimonioAlvo
    \/ CalcularValoresAlvo
    \/ CalcularAcoes
    \/ VerificarViabilidade

Spec == Init /\ [][Next]_vars

\* ------------------------------------------------------------------------
\* One call of any public function
\* ------------------------------------------------------------------------

Operacoes ==
    {"calcular_rebalanceamento", "calcular_rebalanceamento_com_fixos",
     "calcular_aporte_necessario_para_alvo", "calcular_rebalanceamento_otimizado",
     "calcular_rebalanceamento_otimizado_silencioso"}

\* the functions with the parameter valor_aporte_total, a finite amount
ComAporteTotal == {"calcular_rebalanceamento", "calcular_rebalanceamento_com_fixos"}

\* the arguments that the signature of the called function admits
Assinatura ==
    /\ operacao = "calcular_rebalanceamento" => ativos_fixos = {}
    /\ operacao = "calcular_aporte_necessario_para_alvo" =>
          valor_aporte_disponivel = POSITIVE_INFINITY
    /\ operacao \in ComAporteTotal => valor_aporte_disponivel # POSITIVE_INFINITY

\* current values of the calls of any public function range over 0 .. MaxValorOperacoes
MaxValorOperacoes == 1

\* a call of any public function, with inputs of a grid or of the listed ones
InitOperacoes ==
    /\ operacao \in Operacoes
    /\ \/ \E K \in (SUBSET Ativos) \ {{}} :
             /\ ativos_atuais \in [K -> {R(v) : v \in 0..MaxValorOperacoes}]
             /\ percentuais_alvo \in [K -> PercGrade]
             /\ SomaAdmitida(percentuais_alvo)
             /\ ativos_fixos \in SUBSET K
       \/ \E e \in Cenarios \cup EntradasMalFormadas \cup CenariosExemplos \cup CenariosLimite
                 \cup CenariosTolerancia :
             /\ ativos_atuais = e.ativos_atuais
             /\ percentuais_alvo = e.percentuais_alvo
             /\ ativos_fixos \in {e.ativos_fixos, {}}
    /\ valor_aporte_disponivel \in AportesGrade
    /\ Assinatura
    /\ arredondamento \in Arredondamentos
    /\ Locais

\* the call r of a public function, as one step
Chamada(r) ==
    /\ pc = "inicio"
    /\ pc' = IF r.erro = "None" THEN "retornou" ELSE "erro"
    /\ erro' = r.erro
    /\ resultado' = r.resultado
    /\ UNCHANGED <<entradas, patrimonio_alvo, valores_alvo, acoes_por_ativo,
                   total_aportes_internos, total_vendas>>

ChamarCalcularRebalanceamento ==
    /\ operacao = "calcular_rebalanceamento"
    /\ Chamada(calcular_rebalanceamento(ativos_atuais, percentuais_alvo,
                                        valor_aporte_disponivel))

ChamarCalcularRebalanceamentoComFixos ==
    /\ operacao = "calcular_rebalanceamento_com_fixos"
    /\ Chamada(calcular_rebalanceamento_com_fixos(ativos_atuais, percentuais_alvo,
                                                  valor_aporte_disponivel, ativos_fixos))

ChamarCalcularAporteNecessarioParaAlvo ==
    /\ operacao = "calcular_aporte_necessario_para_alvo"
    /\ Chamada(calcular_aporte_necessario_para_alvo(ativos_atuais, percentuais_alvo,
                                                    ativos_fixos))

ChamarCalcularRebalanceamentoOtimizado ==
    /\ operacao = "calcular_rebalanceamento_otimizado"
    /\ Chamada(calcular_rebalanceamento_otimizado(ativos_atuais, percentuais_alvo,
                                                  valor_aporte_disponivel, ativos_fixos))

ChamarCalcularRebalanceamentoOtimizadoSilencioso ==
    /\ operacao = "calcular_rebalanceamento_otimizado_silencioso"
    /\ Chamada(RebalanceamentoOtimizadoSilencioso(ativos_atuais, percentuais_alvo,
                                                  valor_aporte_disponivel, ativos_fixos))

NextOperacoes ==
    \/ ChamarCalcularRebalanceamento
    \/ ChamarCalcularRebalanceamentoComFixos
    \/ ChamarCalcularAporteNecessarioParaAlvo
    \/ ChamarCalcularRebalanceamentoOtimizado
    \/ ChamarCalcularRebalanceamentoOtimizadoSilencioso

SpecOperacoes == InitOperacoes /\ [][NextOperacoes]_vars

\* ------------------------------------------------------------------------
\* The web form of src/app.py: a session of add, remove and calculate
\* ------------------------------------------------------------------------
\* ativos is st.session_state.ativos and resultado is st.session_state.resultado
\* (SemResultado for None).  ativos_atuais, percentuais_alvo and ativos_fixos are the
\* arguments of the last call of calcular_rebalanceamento_otimizado_silencioso, pc
\* and erro its outcome.  The dicts of the form keep insertion order; the core is
\* called with the keys in the order of Ordem.

\* the values of the number inputs range over 0 .. MaxValorApp
MaxValorApp == 1

\* what the fields of the form "adicionar_ativo" can hold
NomesApp   == Ativos \cup {""}
ValoresApp == {R(v) : v \in 0..MaxValorApp}
PercApp    == {Zero, R(25), R(50), Cem}

\* the dicts that the button hands to the core
AtivosAtuaisDaSessao     == [a \in DOMAIN ativos |-> ativos[a].valor_atual]
PercentuaisAlvoDaSessao  == [a \in DOMAIN ativos |-> ativos[a].percentual_alvo]

\* abs(soma_percentuais - 100) <= 0.01, the condition of the column of the button
SomaConfere ==
    ~ExcedeTolerancia(RSub(Soma(PercentuaisAlvoDaSessao), Cem), "soma")

InitApp ==
    /\ operacao = "calcular_rebalanceamento_otimizado_silencioso"
    /\ ativos_atuais = <<>>
    /\ percentuais_alvo = <<>>
    /\ valor_aporte_disponivel = POSITIVE_INFINITY
    /\ ativos_fixos = {}
    /\ arredondamento = [c \in Comparacoes |-> FALSE]
    /\ Locais

\* what the form and the remove buttons leave alone
ForaDaSessao ==
    <<operacao, ativos_atuais, percentuais_alvo, valor_aporte_disponivel, ativos_fixos,
      arredondamento, pc, patrimonio_alvo, valores_alvo, acoes_por_ativo,
      total_aportes_internos, total_vendas, erro, resultado>>

\* the form stores whatever is submitted, a value or percentage of 0 included
AdicionarAtivoSemGuarda ==
    /\ \E nome_ativo \in NomesApp, valor_atual \in ValoresApp, percentual_alvo \in PercApp :
          ativos' = [a \in DOMAIN ativos \cup {nome_ativo} |->
                       IF a = nome_ativo
                       THEN [valor_atual |-> valor_atual,
                             percentual_alvo |-> percentual_alvo]
                       ELSE ativos[a]]
    /\ UNCHANGED ForaDaSessao

\* submit of the form: the asset is stored (or replaced) if it has a name, a
\* positive value and a positive percentage
AdicionarAtivo ==
    /\ \E nome_ativo \in NomesApp, valor_atual \in ValoresApp, percentual_alvo \in PercApp :
          IF nome_ativo # "" /\ RGt(valor_atual, Zero) /\ RGt(percentual_alvo, Zero)
          THEN ativos' = [a \in DOMAIN ativos \cup {nome_ativo} |->
                            IF a = nome_ativo
                            THEN [valor_atual |-> valor_atual,
                                  percentual_alvo |-> percentual_alvo]
                            ELSE ativos[a]]
          ELSE ativos' = ativos
    /\ UNCHANGED ForaDaSessao

\* the remove button of a stored asset: del st.session_state.ativos[ativo]
RemoverAtivo ==
    /\ \E ativo \in DOMAIN ativos :
          ativos' = [a \in DOMAIN ativos \ {ativo} |-> ativos[a]]
    /\ UNCHANGED ForaDaSessao

\* the button "Calcular Rebalanceamento", shown when assets are stored and their
\* percentages sum to 100: the core is called without cap, with the assets chosen
\* in the multiselect as fixed, and its result is stored if it returns
Calcular ==
    /\ DOMAIN ativos # {}
    /\ SomaConfere
    /\ \E fixos \in SUBSET DOMAIN ativos :
          LET r == RebalanceamentoOtimizadoSilencioso(AtivosAtuaisDaSessao,
                       PercentuaisAlvoDaSessao, POSITIVE_INFINITY, fixos)
          IN  /\ ativos_atuais' = AtivosAtuaisDaSessao
              /\ percentuais_alvo' = PercentuaisAlvoDaSessao
              /\ ativos_fixos' = fixos
              /\ pc' = IF r.erro = "None" THEN "retornou" ELSE "erro"
              /\ erro' = r.erro
              /\ resultado' = IF r.erro = "None" THEN r.resultado ELSE resultado
    /\ UNCHANGED <<operacao, valor_aporte_disponivel, arredondamento, ativos, patrimonio_alvo,
                   valores_alvo, acoes_por_ativo, total_aportes_internos, total_vendas>>

NextApp ==
    \/ AdicionarAtivo
    \/ RemoverAtivo
    \/ Calcular

SpecApp == InitApp /\ [][NextApp]_vars

\* the steps of a call and the call as a function agree
PassosConformes ==
    pc \in {"retornou", "erro"} =>
        LET r == RebalanceamentoOtimizadoSilencioso(ativos_atuais, percentuais_alvo,
                                                    valor_aporte_disponivel, ativos_fixos)
        IN  r.erro = erro /\ r.resultado = resultado

\* ------------------------------------------------------------------------
\* Properties
\* ------------------------------------------------------------------------

Retornou == pc = "retornou"

\* the call returned a plan (not the dict of incompatible fixed assets)
RetornouPlano == Retornou /\ DOMAIN resultado.acoes_por_ativo # {}

PatrimonioAtual == Soma(ativos_atuais)

NaoFixos == DOMAIN ativos_atuais \ ativos_fixos

\* the per-asset candidates valor_atual / (perc_alvo / 100) of the assets of S
Candidatos(S) ==
    { RDiv(RMul(ativos_atuais[a], Cem), percentuais_alvo[a]) :
        a \in {b \in S : percentuais_alvo[b] # Zero} }

\* the largest / smallest member of a non-empty set of rationals
Maior(S) == CHOOSE x \in S : \A y \in S : RLe(y, x)
Menor(S) == CHOOSE x \in S : \A y \in S : RLe(x, y)

\* C1: percentage conservation - in every viable result, every asset's final
\* percentage is within 0.01 of its target percentage.
C1_ConservacaoPercentual ==
    (Retornou /\ resultado.viavel) =>
        \A a \in DOMAIN percentuais_alvo :
            RLe(RAbs(RSub(resultado.percentuais_finais[a], percentuais_alvo[a])), Tolerancia)

\* C2: value conservation - when the target percentages sum to exactly 100, the
\* final values of a returned plan sum to patrimonio_alvo.
C2_ConservacaoValor ==
    (RetornouPlano /\ Soma(percentuais_alvo) = Cem) =>
        Soma(resultado.valores_finais) = resultado.patrimonio_alvo

\* C3: fixed-asset invariance - in every returned plan each fixed asset has action 0
\* and final value equal to its current value, and the totals of sells and buys are
\* sums over the non-fixed assets only.
C3_FixosInalterados ==
    RetornouPlano =>
        /\ \A a \in ativos_fixos :
              /\ resultado.acoes_por_ativo[a] = Zero
              /\ resultado.valores_finais[a] = ativos_atuais[a]
        /\ resultado.total_vendas =
              SomaEm([a \in NaoFixos |->
                         RMax(Zero, RSub(ativos_atuais[a], resultado.valores_finais[a]))],
                     Lista(NaoFixos))
        /\ resultado.total_aportes_internos =
              SomaEm([a \in NaoFixos |->
                         RMax(Zero, RSub(resultado.valores_finais[a], ativos_atuais[a]))],
                     Lista(NaoFixos))

\* a plan with two fixed assets whose own candidates differ and a non-fixed asset
\* that is bought or sold
C3_Testemunha ==
    /\ RetornouPlano
    /\ Cardinality(Candidatos(ativos_fixos)) >= 2
    /\ \E a \in NaoFixos : resultado.acoes_por_ativo[a] # Zero

\* C4: plan consistency - in every returned plan each final value is the current
\* value plus the action, total_aportes_internos is the sum of the positive actions
\* and total_vendas the sum of the absolute values of the negative actions.
C4_PlanoConsistente ==
    RetornouPlano =>
        LET acoes == resultado.acoes_por_ativo
            K     == DOMAIN ativos_atuais
        IN  /\ \A a \in K :
                  resultado.valores_finais[a] = RAdd(ativos_atuais[a], acoes[a])
            /\ resultado.total_aportes_internos =
                  SomaEm([a \in K |-> IF RGt(acoes[a], Zero) THEN acoes[a] ELSE Zero], Lista(K))
            /\ resultado.total_vendas =
                  SomaEm([a \in K |-> IF RLt(acoes[a], Zero) THEN RAbs(acoes[a]) ELSE Zero],
                         Lista(K))

\* a plan with a buy and a sell
C4_Testemunha ==
    /\ RetornouPlano
    /\ \E a \in DOMAIN ativos_atuais : RGt(resultado.acoes_por_ativo[a], Zero)
    /\ \E a \in DOMAIN ativos_atuais : RLt(resultado.acoes_por_ativo[a], Zero)

\* C5: non-negativity - no final value of a returned plan is negative.
C5_NaoNegatividade ==
    Retornou => \A a \in DOMAIN resultado.valores_finais :
                    RLe(Zero, resultado.valores_finais[a])

\* a plan that sells an asset down to exactly 0
C5_Testemunha ==
    /\ RetornouPlano
    /\ \E a \in DOMAIN ativos_atuais :
          /\ RGt(ativos_atuais[a], Zero)
          /\ resultado.valores_finais[a] = Zero

\* every asset's current share equals its target percentage exactly, no asset fixed
NoAlvo ==
    /\ validar_entradas(ativos_atuais, percentuais_alvo) = "ok"
    /\ ativos_fixos = {}
    /\ RGt(PatrimonioAtual, Zero)
    /\ \A a \in DOMAIN ativos_atuais :
          RMul(RDiv(ativos_atuais[a], PatrimonioAtual), Cem) = percentuais_alvo[a]

CapMaiorOuIgual(d, c) ==
    \/ d = POSITIVE_INFINITY
    \/ c # POSITIVE_INFINITY /\ RLe(c, d)

\* C7: monotonic feasibility - if the call returns viavel True for its cap, the call
\* with the same other arguments and any larger cap (or no cap) returns viavel True.
C7_ViabilidadeMonotona ==
    (Retornou /\ resultado.viavel) =>
        \A d \in AportesGrade :
            CapMaiorOuIgual(d, valor_aporte_disponivel) =>
                LET r == RebalanceamentoOtimizadoSilencioso(ativos_atuais, percentuais_alvo,
                                                            d, ativos_fixos)
                IN  r.erro = "None" /\ r.resultado.viavel

\* a plan viable under a finite cap that a smaller cap of the grid makes infeasible
C7_Testemunha ==
    /\ Retornou /\ resultado.viavel
    /\ valor_aporte_disponivel # POSITIVE_INFINITY
    /\ \E d \in AportesGrade :
          /\ ~CapMaiorOuIgual(d, valor_aporte_disponivel)
          /\ ~RebalanceamentoOtimizadoSilencioso(ativos_atuais, percentuais_alvo,
                                                 d, ativos_fixos).resultado.viavel

\* the inputs of scenario A (src/teste_exemplo.py, testar_exemplo_usuario)
EntradaCenarioA ==
    /\ ativos_atuais = Dict3(10, 10, 50)
    /\ percentuais_alvo = Dict3(1, 50, 49)
    /\ valor_aporte_disponivel = POSITIVE_INFINITY
    /\ ativos_fixos = {}

\* x is y within the tolerance 0.1 of the scenarios
Perto(x, y) == RLe(RAbs(RSub(x, y)), <<1, 10>>)

\* C8: scenario A - for {A:10, B:10, C:50} with targets {A:1, B:50, C:49}, no cap and
\* no fixed asset, the call returns viavel True, patrimonio_alvo about 102.04
\* (50 / 0.49), actions about A -8.98, B +41.02, C 0 and aporte_necessario about 32.04.
C8_CenarioA ==
    EntradaCenarioA =>
        /\ pc # "erro"
        /\ Retornou =>
              /\ resultado.viavel
              /\ Perto(resultado.patrimonio_alvo, Rat(5000, 49))
              /\ Perto(resultado.acoes_por_ativo["A"], Rat(-898, 100))
              /\ Perto(resultado.acoes_por_ativo["B"], Rat(4102, 100))
              /\ Perto(resultado.acoes_por_ativo["C"], Zero)
              /\ Perto(resultado.aporte_necessario, Rat(3204, 100))

\* step 1 has assigned patrimonio_alvo
PatrimonioCalculado == pc \in {"patrimonio", "valores", "acoes"} \/ RetornouPlano

\* buys and sells of the plan that gives every asset perc_alvo / 100 of the equity e
ComprasEm(e) ==
    SomaEm([a \in DOMAIN ativos_atuais |->
               RMax(Zero, RSub(RMul(RDiv(percentuais_alvo[a], Cem), e), ativos_atuais[a]))],
           Chaves(ativos_atuais))
VendasEm(e) ==
    SomaEm([a \in DOMAIN ativos_atuais |->
               RMax(Zero, RSub(ativos_atuais[a], RMul(RDiv(percentuais_alvo[a], Cem), e)))],
           Chaves(ativos_atuais))
AutoFinanciado(e) == RLe(ComprasEm(e), VendasEm(e))

\* the equity of the candidate enumeration: the smallest self-funding member of the
\* per-asset candidates and the current total, else the smallest per-asset candidate
PatrimonioPorEnumeracao ==
    LET todos == Candidatos(DOMAIN ativos_atuais) \cup {PatrimonioAtual}
        auto  == {e \in todos : AutoFinanciado(e)}
    IN  IF auto # {} THEN Menor(auto) ELSE Menor(Candidatos(DOMAIN ativos_atuais))

ComprasNaoFixosEm(e) ==
    SomaEm([a \in DOMAIN ativos_atuais |->
               IF a \in ativos_fixos THEN Zero
               ELSE RMax(Zero, RSub(RMul(RDiv(percentuais_alvo[a], Cem), e), ativos_atuais[a]))],
           Chaves(ativos_atuais))
VendasNaoFixosEm(e) ==
    SomaEm([a \in DOMAIN ativos_atuais |->
               IF a \in ativos_fixos THEN Zero
               ELSE RMax(Zero, RSub(ativos_atuais[a], RMul(RDiv(percentuais_alvo[a], Cem), e)))],
           Chaves(ativos_atuais))

\* the equities, among the per-asset candidates and the current total, at which the
\* sells of the over-weight non-fixed assets cover all buys
PatrimoniosAutoFinanciados ==
    { e \in Candidatos(DOMAIN ativos_atuais) \cup {PatrimonioAtual} :
        RLe(ComprasNaoFixosEm(e), VendasNaoFixosEm(e)) }

\* C11 as stated: whenever some target equity exists at which the sells of the
\* over-weight non-fixed assets cover all buys, the returned aporte_necessario is 0
\* and the returned patrimonio_alvo is the smallest such equity.
C11_AporteMinimo ==
    (RetornouPlano /\ PatrimoniosAutoFinanciados # {}) =>
        /\ resultado.aporte_necessario = Zero
        /\ resultado.patrimonio_alvo = Menor(PatrimoniosAutoFinanciados)

\* the inputs of scenario D (src/examples.py, example 9)
EntradaCenarioD ==
    /\ ativos_atuais = Dict2(1000, 4000)
    /\ percentuais_alvo = Dict2(80, 20)
    /\ valor_aporte_disponivel = R(500)
    /\ ativos_fixos = {}

\* the net contribution of the returned plan
AporteLiquido == RSub(resultado.total_aportes_internos, resultado.total_vendas)

\* C12: feasibility verdict - a returned plan has viavel False exactly when the cap
\* is finite and total_aportes_internos - total_vendas is above it; a viable plan has
\* motivo_inviabilidade None, an infeasible one names the exceeded contribution, and
\* scenario D is infeasible.
C12_VereditoViabilidade ==
    RetornouPlano =>
        /\ ~resultado.viavel <=>
              /\ valor_aporte_disponivel # POSITIVE_INFINITY
              /\ RGt(AporteLiquido, valor_aporte_disponivel)
        /\ resultado.viavel => resultado.motivo_inviabilidade = "None"
        /\ ~resultado.viavel =>
              resultado.motivo_inviabilidade = "Aporte necessario excede disponivel"
        /\ EntradaCenarioD => ~resultado.viavel

\* a viable plan whose positive net contribution is exactly the finite cap
C12_Testemunha ==
    /\ RetornouPlano
    /\ resultado.viavel
    /\ valor_aporte_disponivel # POSITIVE_INFINITY
    /\ AporteLiquido = valor_aporte_disponivel
    /\ RGt(AporteLiquido, Zero)

\* C13: clamping - in every result with viavel True, aporte_necessario is
\* max(0, total_aportes_internos - total_vendas), hence never negative, and 0 when
\* the sells exceed the buys.
C13_AporteNaoNegativo ==
    (RetornouPlano /\ resultado.viavel) =>
        /\ resultado.aporte_necessario = (IF RLt(AporteLiquido, Zero) THEN Zero ELSE AporteLiquido)
        /\ RLe(Zero, resultado.aporte_necessario)

\* a viable plan whose sells exceed its buys
C13_Testemunha ==
    /\ RetornouPlano
    /\ resultado.viavel
    /\ RGt(resultado.total_vendas, resultado.total_aportes_internos)

\* the result is the dict of incompatible fixed assets
FixosIncompativeis == Retornou /\ resultado.motivo_inviabilidade = "Ativos fixos incompativeis"

\* a result defines acoes_por_ativo, valores_finais and percentuais_finais for every
\* asset of ativos_atuais
DictsCompletos ==
    /\ DOMAIN resultado.acoes_por_ativo = DOMAIN ativos_atuais
    /\ DOMAIN resultado.valores_finais = DOMAIN ativos_atuais
    /\ DOMAIN resultado.percentuais_finais = DOMAIN ativos_atuais

\* the target equity that the inputs determine: the largest candidate of the fixed
\* assets when one of them has a positive value, else the largest of the current
\* total and the candidates of the non-fixed assets
PatrimonioDasEntradas ==
    IF \E a \in ativos_fixos : RGt(ativos_atuais[a], Zero)
    THEN Maior(Candidatos(ativos_fixos))
    ELSE Maior(Candidatos(NaoFixos) \cup {PatrimonioAtual})

\* C16 as stated: every returned result, viavel or not, has acoes_por_ativo,
\* valores_finais and percentuais_finais defined for every asset of ativos_atuais
\* and a positive patrimonio_alvo computed from the inputs.
C16_SaidaCompleta ==
    Retornou =>
        /\ DictsCompletos
        /\ RGt(resultado.patrimonio_alvo, Zero)
        /\ resultado.patrimonio_alvo = PatrimonioDasEntradas

\* C16 as amended: every returned result other than the one of incompatible fixed
\* assets is fully populated, with a positive patrimonio_alvo computed from the
\* inputs, also when viavel is False; the result of incompatible fixed assets has
\* viavel False, empty dicts and patrimonio_alvo 0.
C16_SaidaCompletaSalvoFixos ==
    Retornou =>
        IF FixosIncompativeis
        THEN /\ ~resultado.viavel
             /\ resultado.acoes_por_ativo = <<>>
             /\ resultado.valores_finais = <<>>
             /\ resultado.percentuais_finais = <<>>
             /\ resultado.patrimonio_alvo = Zero
        ELSE /\ DictsCompletos
             /\ RGt(resultado.patrimonio_alvo, Zero)
             /\ resultado.patrimonio_alvo = PatrimonioDasEntradas

\* a result refused for its contribution, with a fixed asset and a sale in the plan
C16_Testemunha ==
    /\ Retornou
    /\ ~resultado.viavel
    /\ ~FixosIncompativeis
    /\ ativos_fixos # {}
    /\ \E a \in DOMAIN ativos_atuais : RLt(resultado.acoes_por_ativo[a], Zero)

\* C17 as stated: on an input that passed validar_entradas and whose fixed assets
\* pass the existence check and the share check, the complement check passes too:
\* validar_ativos_fixos never answers 'ativos variaveis precisam de'.
C17_ComplementoRedundante ==
    Retornou => resultado.detalhe # "ativos variaveis precisam de"

\* C19 as stated: on a validated input with a positive total, fixed assets of
\* non-zero target, and a non-fixed asset of target 0, the call raises nothing and
\* the plan it returns gives that asset the final value 0.
C19_PercentualZero ==
    LET zerados == {a \in NaoFixos : percentuais_alvo[a] = Zero}
    IN  ( /\ pc \notin {"inicio", "validado"}
          /\ erro \notin {"ValueError: vazios", "ValueError: ativos nao coincidem",
                          "ValueError: soma dos percentuais"}
          /\ ~FixosIncompativeis
          /\ RGt(PatrimonioAtual, Zero)
          /\ \A a \in ativos_fixos : percentuais_alvo[a] # Zero
          /\ zerados # {} ) =>
            /\ pc # "erro"
            /\ RetornouPlano => \A a \in zerados : resultado.valores_finais[a] = Zero

\* the result of the call with the cap d and the other arguments of this call
ComAporte(d) ==
    RebalanceamentoOtimizadoSilencioso(ativos_atuais, percentuais_alvo, d, ativos_fixos)

\* C20: the cap only affects the verdict - for every cap the call raises the same
\* error or returns the same patrimonio_alvo, acoes_por_ativo, valores_finais,
\* percentuais_finais, total_vendas and total_aportes_internos; of the remaining
\* keys only viavel, motivo_inviabilidade and the clamping of aporte_necessario change.
C20_AporteSoAfetaVeredito ==
    pc \in {"retornou", "erro"} =>
        \A d \in AportesGrade :
            LET r == ComAporte(d)
            IN  /\ r.erro = erro
                /\ Retornou =>
                     /\ r.resultado.patrimonio_alvo = resultado.patrimonio_alvo
                     /\ r.resultado.acoes_por_ativo = resultado.acoes_por_ativo
                     /\ r.resultado.valores_finais = resultado.valores_finais
                     /\ r.resultado.percentuais_finais = resultado.percentuais_finais
                     /\ r.resultado.total_vendas = resultado.total_vendas
                     /\ r.resultado.total_aportes_internos = resultado.total_aportes_internos
                     /\ r.resultado.patrimonio_atual = resultado.patrimonio_atual
                     /\ r.resultado.percentuais_atuais = resultado.percentuais_atuais
                     /\ RMax(Zero, r.resultado.aporte_necessario)
                           = RMax(Zero, resultado.aporte_necessario)

\* a plan refused under the cap of this call and accepted under another cap
C20_Testemunha ==
    /\ RetornouPlano
    /\ ~resultado.viavel
    /\ \E d \in AportesGrade : ComAporte(d).resultado.viavel

\* the call has ended, by a return or by an exception
Terminou == pc \in {"retornou", "erro"}

\* the exceptions of validar_entradas
ErrosDeEntrada ==
    {"ValueError: vazios", "ValueError: ativos nao coincidem", "ValueError: soma dos percentuais"}

\* a dict is empty or the key sets differ
MalFormada ==
    \/ DOMAIN ativos_atuais = {}
    \/ DOMAIN percentuais_alvo = {}
    \/ DOMAIN ativos_atuais # DOMAIN percentuais_alvo

\* the distance of the sum of the targets from 100, in exact arithmetic
DesvioDaSoma == RAbs(RSub(Soma(percentuais_alvo), Cem))

\* C14 as stated: a call of any public function raises the error of validar_entradas
\* exactly when a dict is empty, the key sets differ or |sum - 100| > 0.01, and then
\* returns nothing.
C14_ValidacaoExata ==
    Terminou =>
        LET invalida == MalFormada \/ RGt(DesvioDaSoma, Tolerancia)
        IN  /\ invalida <=> erro \in ErrosDeEntrada
            /\ invalida => pc = "erro" /\ resultado = SemResultado

\* C14 as amended: a call of any public function raises the error of
\* validar_entradas exactly when a dict is empty, the key sets differ or the doubles
\* find |sum - 100| > 0.01, which at an exact distance of 0.01 depends on the
\* rounding; it then returns nothing.
C14_ValidacaoArredondada ==
    Terminou =>
        LET invalida == \/ MalFormada
                        \/ RGt(DesvioDaSoma, Tolerancia)
                        \/ DesvioDaSoma = Tolerancia /\ arredondamento["soma"]
        IN  /\ invalida <=> erro \in ErrosDeEntrada
            /\ invalida => pc = "erro" /\ resultado = SemResultado

\* a call of a function other than the silent one, with fixed assets, refused for
\* the sum of its targets
C14_Testemunha ==
    /\ pc = "erro"
    /\ erro = "ValueError: soma dos percentuais"
    /\ operacao = "calcular_aporte_necessario_para_alvo"
    /\ RGt(DesvioDaSoma, Tolerancia)
    /\ ativos_fixos # {}

\* the fixed assets contradict the dicts: one of them is not a key, or their share
\* of the current total differs from the sum of their targets by more than 0.01
FixosContraditorios ==
    /\ ativos_fixos # {}
    /\ \/ \E a \in ativos_fixos : a \notin DOMAIN ativos_atuais
       \/ LET parcela == IF RGt(PatrimonioAtual, Zero)
                         THEN RDiv(RMul(SomaEm(ativos_atuais, Lista(ativos_fixos)), Cem),
                                   PatrimonioAtual)
                         ELSE Zero
          IN  RGt(RAbs(RSub(parcela, SomaEm(percentuais_alvo, Lista(ativos_fixos)))),
                  Tolerancia)

\* the call passed validar_entradas and has ended
TerminouValidada == Terminou /\ erro \notin ErrosDeEntrada

\* the ValueError that carries the message of validar_ativos_fixos
ErrosDeFixos ==
    {"ValueError: nao encontrado nos ativos atuais", "ValueError: ativos fixos ocupam"}

\* C15 as stated: when the fixed assets contradict the dicts, every function that
\* accepts ativos_fixos raises an error and returns no result.
C15_FixosContraditoriosSaoErros ==
    (TerminouValidada /\ FixosContraditorios) =>
        pc = "erro" /\ erro \in ErrosDeFixos

\* C15 as amended: when the fixed assets contradict the dicts,
\* calcular_rebalanceamento_com_fixos and calcular_aporte_necessario_para_alvo raise
\* a ValueError, while calcular_rebalanceamento_otimizado and its silent version
\* return a result with viavel False, the reason of incompatible fixed assets,
\* patrimonio_alvo 0 and empty dicts; no target equity is computed in either case.
C15_FixosContraditoriosPorFuncao ==
    (TerminouValidada /\ FixosContraditorios) =>
        IF operacao \in {"calcular_rebalanceamento_com_fixos",
                         "calcular_aporte_necessario_para_alvo"}
        THEN pc = "erro" /\ erro \in ErrosDeFixos /\ resultado = SemResultado
        ELSE /\ pc = "retornou"
             /\ ~resultado.viavel
             /\ resultado.motivo_inviabilidade = "Ativos fixos incompativeis"
             /\ resultado.detalhe \in {"nao encontrado nos ativos atuais", "ativos fixos ocupam"}
             /\ resultado.patrimonio_alvo = Zero
             /\ resultado.acoes_por_ativo = <<>>
             /\ resultado.valores_finais = <<>>
             /\ resultado.percentuais_finais = <<>>

\* scenario C (ITSA4 fixed at a third of the total, target 50) given to
\* calcular_rebalanceamento_com_fixos, as in example 4 of src/examples.py
C15_Testemunha ==
    /\ operacao = "calcular_rebalanceamento_com_fixos"
    /\ ativos_atuais = Dict3(2000, 3000, 1000)
    /\ percentuais_alvo = Dict3(50, 30, 20)
    /\ ativos_fixos = {"A"}
    /\ valor_aporte_disponivel = Zero
    /\ pc = "erro"
    /\ erro = "ValueError: ativos fixos ocupam"

\* the keys that the dicts of the two optimised functions share (detalhe is the
\* message inside motivo_inviabilidade)
ChavesComuns ==
    {"viavel", "motivo_inviabilidade", "detalhe", "patrimonio_alvo", "aporte_necessario",
     "acoes_por_ativo", "valores_finais", "percentuais_finais", "total_vendas",
     "total_aportes_internos"}

\* the call of the other optimised function with the arguments of this call
OutraOtimizada ==
    IF operacao = "calcular_rebalanceamento_otimizado"
    THEN RebalanceamentoOtimizadoSilencioso(ativos_atuais, percentuais_alvo,
                                            valor_aporte_disponivel, ativos_fixos)
    ELSE calcular_rebalanceamento_otimizado(ativos_atuais, percentuais_alvo,
                                            valor_aporte_disponivel, ativos_fixos)

\* C18: verbose/silent equivalence - on the same arguments
\* calcular_rebalanceamento_otimizado and calcular_rebalanceamento_otimizado_silencioso
\* raise the same error or both return, and what they return agrees on every key
\* they share.
C18_EquivalenciaVerbosaSilenciosa ==
    ( /\ Terminou
      /\ operacao \in {"calcular_rebalanceamento_otimizado",
                       "calcular_rebalanceamento_otimizado_silencioso"} ) =>
        /\ OutraOtimizada.erro = erro
        /\ pc = "retornou" =>
              \A k \in ChavesComuns : OutraOtimizada.resultado[k] = resultado[k]

\* a viable plan returned by the function that prints, with a fixed asset, a sale
\* and a buy
C18_Testemunha ==
    /\ operacao = "calcular_rebalanceamento_otimizado"
    /\ pc = "retornou"
    /\ resultado.viavel
    /\ ativos_fixos # {}
    /\ \E a \in DOMAIN ativos_atuais : RLt(resultado.acoes_por_ativo[a], Zero)
    /\ \E a \in DOMAIN ativos_atuais : RGt(resultado.acoes_por_ativo[a], Zero)

\* ------------------------------------------------------------------------
\* calcular_aporte_necessario_para_alvo: the call that only buys
\* ------------------------------------------------------------------------

\* the call of calcular_aporte_necessario_para_alvo returned its dict
RetornouAporteNecessario ==
    operacao = "calcular_aporte_necessario_para_alvo" /\ Retornou

\* the equity that the call settled on: aporte_total = patrimonio_final_necessario -
\* patrimonio_atual
PatrimonioFinalNecessario == RAdd(resultado.aporte_total_necessario, PatrimonioAtual)

\* C21: the call that only buys never sells: every returned contribution is at
\* least 0 and every final value is at least the current value of the asset.
C21_SoCompra ==
    RetornouAporteNecessario =>
        \A a \in DOMAIN ativos_atuais :
            /\ RLe(Zero, resultado.aportes_por_ativo[a])
            /\ RLe(ativos_atuais[a], resultado.valores_finais[a])

\* a call that computed the contributions and whose equity gives some asset a
\* target value below its current value, which the clamp keeps from being sold
C21_Testemunha ==
    /\ RetornouAporteNecessario
    /\ AtivosPrecisamAporte(ativos_atuais, percentuais_alvo, ativos_fixos) # {}
    /\ \E a \in DOMAIN ativos_atuais :
          /\ RLt(RMul(RDiv(percentuais_alvo[a], Cem), PatrimonioFinalNecessario),
                 ativos_atuais[a])
          /\ resultado.aportes_por_ativo[a] = Zero
          /\ resultado.valores_finais[a] = ativos_atuais[a]

\* C22 as stated: the call that only buys leaves the fixed assets alone: on an
\* input whose fixed assets pass validar_ativos_fixos, every fixed asset has
\* contribution 0 and keeps its current value.
C22_FixosSemAporte ==
    (RetornouAporteNecessario /\ ativos_fixos # {}) =>
        \A a \in ativos_fixos :
            /\ resultado.aportes_por_ativo[a] = Zero
            /\ resultado.valores_finais[a] = ativos_atuais[a]

\* a returned buy-only call without fixed assets, with positive current values,
\* targets that sum to exactly 100 and some asset below its target
SoCompraSemFixos ==
    /\ RetornouAporteNecessario
    /\ ativos_fixos = {}
    /\ \A a \in DOMAIN ativos_atuais : RGt(ativos_atuais[a], Zero)
    /\ Soma(percentuais_alvo) = Cem
    /\ AtivosPrecisamAporte(ativos_atuais, percentuais_alvo, ativos_fixos) # {}

EntrouNaBusca ==
    /\ operacao = "calcular_aporte_necessario_para_alvo"
    /\ Terminou
    /\ validar_entradas(ativos_atuais, percentuais_alvo) = "ok"
    /\ ativos_fixos # {} =>
          validar_ativos_fixos(ativos_atuais, ativos_fixos, percentuais_alvo).is_valid
    /\ LET precisam == AtivosPrecisamAporte(ativos_atuais, percentuais_alvo, ativos_fixos)
           restricoes == LacoRestricoes(ativos_atuais, percentuais_alvo, ativos_fixos,
                                        precisam, Chaves(ativos_atuais), Zero)
       IN  precisam # {} /\ ~restricoes.erro /\ restricoes.valor = Zero

\* the search of the call, from the initial guess patrimonio_atual * 2
Busca ==
    BuscaIterativa(ativos_atuais, percentuais_alvo, RMul(PatrimonioAtual, R(2)), MaxIteracoes)

\* C24: when the iterative search is entered, the equity never decreases from
\* one pass to the next, the loop ends because a pass found every asset in order
\* (todos_ativos_ok), after at most N + 1 passes for N assets, and at the end no
\* asset has a target value below its current value.
C24_BuscaTermina ==
    EntrouNaBusca =>
        /\ \A i \in 1..(Len(Busca.passos) - 1) : RLe(Busca.passos[i], Busca.passos[i + 1])
        /\ ~Busca.erro
        /\ Len(Busca.passos) \in 1..(Cardinality(DOMAIN ativos_atuais) + 1)
        /\ Busca.passos[Len(Busca.passos)] = Busca.valor
        /\ \A a \in DOMAIN ativos_atuais :
              ~RLt(RMul(RDiv(percentuais_alvo[a], Cem), Busca.valor), ativos_atuais[a])

\* a call with a positive total that entered the search and returned the equity
\* of the search
C24_Testemunha ==
    /\ EntrouNaBusca
    /\ RetornouAporteNecessario
    /\ RGt(PatrimonioAtual, Zero)
    /\ PatrimonioFinalNecessario = Busca.valor

\* ------------------------------------------------------------------------
\* calcular_rebalanceamento and calcular_rebalanceamento_com_fixos
\* ------------------------------------------------------------------------

\* the call of calcular_rebalanceamento returned its actions
RetornouRebalanceamento == operacao = "calcular_rebalanceamento" /\ Retornou

\* the contribution of the call (valor_aporte_total)
ValorAporteTotal == valor_aporte_disponivel

\* the totals that the call hands to exibir_resumo_final
TotaisRebalanceamento ==
    calcular_acoes_necessarias(ativos_atuais,
        calcular_valores_alvo(percentuais_alvo, RAdd(PatrimonioAtual, ValorAporteTotal)))

\* C25: when the targets sum to exactly 100, the actions of calcular_rebalanceamento
\* sum to the contribution, the buys minus the sales are the contribution (the
\* warning of exibir_resumo_final is not printed), and every asset ends at its
\* target share of the current total plus the contribution.
C25_RebalanceamentoFecha ==
    (RetornouRebalanceamento /\ Soma(percentuais_alvo) = Cem) =>
        /\ Soma(resultado) = ValorAporteTotal
        /\ RSub(TotaisRebalanceamento.total_aportes, TotaisRebalanceamento.total_vendas)
              = ValorAporteTotal
        /\ ~RGt(RAbs(RSub(RSub(TotaisRebalanceamento.total_aportes,
                               TotaisRebalanceamento.total_vendas), ValorAporteTotal)),
                Tolerancia)
        /\ \A a \in DOMAIN ativos_atuais :
              RAdd(ativos_atuais[a], resultado[a]) =
                 RMul(RDiv(percentuais_alvo[a], Cem), RAdd(PatrimonioAtual, ValorAporteTotal))

\* a call with a positive contribution that buys one asset and sells another
C25_Testemunha ==
    /\ RetornouRebalanceamento
    /\ Soma(percentuais_alvo) = Cem
    /\ RGt(ValorAporteTotal, Zero)
    /\ \E a, b \in DOMAIN ativos_atuais :
          RGt(resultado[a], Zero) /\ RLt(resultado[b], Zero)

\* the call of calcular_rebalanceamento_com_fixos with fixed assets returned
RetornouComFixos ==
    operacao = "calcular_rebalanceamento_com_fixos" /\ Retornou /\ ativos_fixos # {}

\* the sum of the returned actions of the assets that are not fixed
AcoesDosVariaveis == SomaEm(resultado, Lista(NaoFixos))

\* the sum of the values after the returned actions
ValoresAposAcoes ==
    Soma([a \in DOMAIN ativos_atuais |-> RAdd(ativos_atuais[a], resultado[a])])

\* C26 as stated: on every accepted input with fixed assets, every asset fixed
\* included, the action of each fixed asset is 0 and the actions of the others
\* sum to the contribution, so the final values sum to the current total plus the
\* contribution.
C26_GastaOAporte ==
    RetornouComFixos =>
        /\ \A a \in ativos_fixos : resultado[a] = Zero
        /\ AcoesDosVariaveis = ValorAporteTotal
        /\ ValoresAposAcoes = RAdd(PatrimonioAtual, ValorAporteTotal)

\* some asset that is not fixed has a positive target
HaVariavelComAlvo == RGt(SomaEm(percentuais_alvo, Lista(NaoFixos)), Zero)

\* C26 amended: the action of each fixed asset is 0; when some asset that is not
\* fixed has a positive target, the actions of the assets that are not fixed sum
\* to the contribution and the final values to the current total plus the
\* contribution; otherwise (every asset fixed, or the others with target 0) nothing
\* is bought, the assets that are not fixed are sold out and the contribution is
\* left unspent.
C26_GastaOAporteSeHaVariavel ==
    RetornouComFixos =>
        /\ \A a \in ativos_fixos : resultado[a] = Zero
        /\ IF HaVariavelComAlvo
           THEN /\ AcoesDosVariaveis = ValorAporteTotal
                /\ ValoresAposAcoes = RAdd(PatrimonioAtual, ValorAporteTotal)
           ELSE /\ \A a \in NaoFixos : resultado[a] = RNeg(ativos_atuais[a])
                /\ AcoesDosVariaveis = RNeg(SomaEm(ativos_atuais, Lista(NaoFixos)))

\* a call with a fixed asset and a positive contribution that buys an asset that
\* is not fixed
C26_Testemunha ==
    /\ RetornouComFixos
    /\ HaVariavelComAlvo
    /\ RGt(ValorAporteTotal, Zero)
    /\ RGt(SomaEm(ativos_atuais, Lista(ativos_fixos)), Zero)
    /\ \E a \in NaoFixos : RGt(resultado[a], Zero)

\* ------------------------------------------------------------------------
\* The optimised functions without fixed assets
\* ------------------------------------------------------------------------

\* a plan returned by calcular_rebalanceamento_otimizado or its silent twin for an
\* input without fixed assets whose percentages are all positive
PlanoSemFixos ==
    /\ operacao \in {"calcular_rebalanceamento_otimizado",
                     "calcular_rebalanceamento_otimizado_silencioso"}
    /\ RetornouPlano
    /\ ativos_fixos = {}
    /\ \A a \in DOMAIN percentuais_alvo : RGt(percentuais_alvo[a], Zero)

Ordens(S) ==
    {seq \in [1..Cardinality(S) -> S] : {seq[i] : i \in 1..Cardinality(S)} = S}

\* _calcular_patrimonio_alvo_minimo raised ZeroDivisionError in the call
ErroNoPatrimonio ==
    pc = "erro" /\ erro = "ZeroDivisionError" /\ valores_alvo = <<>>

\* C28: the equity of _calcular_patrimonio_alvo_minimo does not depend on the
\* order in which ativos_atuais is iterated, and neither does the plan: for every
\* order of the keys the function returns the patrimonio_alvo of the call (or
\* raises as the call did), and the totals of the plan summed in that order are
\* those returned.
C28_IndependeDaOrdem ==
    \A seq \in Ordens(DOMAIN ativos_atuais) :
        LET r == CalcularPatrimonioAlvoMinimoNaOrdem(ativos_atuais, percentuais_alvo,
                                                     ativos_fixos, seq)
            va == ValoresAlvo(ativos_atuais, percentuais_alvo, ativos_fixos, r.valor)
        IN  /\ PatrimonioCalculado => (~r.erro /\ r.valor = patrimonio_alvo)
            /\ ErroNoPatrimonio => r.erro
            /\ RetornouPlano =>
                  /\ resultado.patrimonio_alvo = r.valor
                  /\ resultado.valores_finais = va
                  /\ resultado.acoes_por_ativo = AcoesPorAtivo(ativos_atuais, va, ativos_fixos)
                  /\ resultado.total_aportes_internos =
                        TotalAportesInternos(ativos_atuais, va, ativos_fixos, seq)
                  /\ resultado.total_vendas = TotalVendas(ativos_atuais, va, ativos_fixos, seq)

\* a plan without fixed assets in which the first asset iterated is above its
\* target and a later one has the largest minimum equity: the second loop compares
\* the later asset against the equity that the first one enlarged
C28_Testemunha ==
    /\ RetornouPlano
    /\ ativos_fixos = {}
    /\ \A a \in DOMAIN ativos_atuais : RGt(percentuais_alvo[a], Zero)
    /\ \E a, b \in DOMAIN ativos_atuais :
          /\ a = Head(Chaves(ativos_atuais))
          /\ RLt(PatrimonioAtual, PatrimonioMinimo(ativos_atuais[a], percentuais_alvo[a]))
          /\ RLt(PatrimonioMinimo(ativos_atuais[a], percentuais_alvo[a]),
                 PatrimonioMinimo(ativos_atuais[b], percentuais_alvo[b]))
          /\ resultado.patrimonio_alvo =
                PatrimonioMinimo(ativos_atuais[b], percentuais_alvo[b])

\* ------------------------------------------------------------------------
\* The web form
\* ------------------------------------------------------------------------

\* st.session_state.resultado holds a result
ResultadoNaSessao == resultado # SemResultado

\* C29: in every state of a session each stored asset has a positive value and a
\* positive percentage, the core was only called with percentages that sum to 100
\* within 0.01, no call raised (no validation error, no division by zero), and a
\* result that is not viable comes from an incompatible selection of fixed assets.
C29_FormularioSeguro ==
    /\ \A a \in DOMAIN ativos :
          RGt(ativos[a].valor_atual, Zero) /\ RGt(ativos[a].percentual_alvo, Zero)
    /\ pc # "erro"
    /\ erro = "None"
    /\ pc = "retornou" =>
          /\ ~ExcedeTolerancia(RSub(Soma(percentuais_alvo), Cem), "soma")
          /\ ResultadoNaSessao
          /\ ~resultado.viavel =>
                /\ ativos_fixos # {}
                /\ resultado.motivo_inviabilidade = "Ativos fixos incompativeis"

\* a session whose last calculation returned a viable plan that buys an asset of
\* the stored portfolio
C29_Testemunha ==
    /\ pc = "retornou"
    /\ resultado.viavel
    /\ ativos_atuais = AtivosAtuaisDaSessao
    /\ Cardinality(DOMAIN ativos) = 3
    /\ \E a \in DOMAIN ativos : RGt(resultado.acoes_por_ativo[a], Zero)

\* C30 as stated: whenever the session holds a viable result, its acoes_por_ativo
\* and valores_finais have entries for exactly the stored assets and it is the
\* result of the core for their current values and percentages.
C30_ResultadoAtual ==
    (ResultadoNaSessao /\ resultado.viavel) =>
        /\ DOMAIN resultado.acoes_por_ativo = DOMAIN ativos
        /\ DOMAIN resultado.valores_finais = DOMAIN ativos
        /\ \E fixos \in SUBSET DOMAIN ativos :
              resultado = RebalanceamentoOtimizadoSilencioso(AtivosAtuaisDaSessao,
                              PercentuaisAlvoDaSessao, POSITIVE_INFINITY, fixos).resultado

====
